---- MODULE Spec2Model ----
(***************************************************************************)
(* Ephemeral anonymous chat (src/app/page.tsx and src/scripts/*.sql).      *)
(*                                                                         *)
(* The store is the table public.messages with the routine                 *)
(* delete_old_messages(); every client is one mounted instance of the      *)
(* AnonymousChat component.  Times are milliseconds, as Date.now() and     *)
(* getTime() give them.  Network calls (fetch, insert, purge rpc) and the  *)
(* realtime channel are asynchronous: a request is served by the store at  *)
(* some later step and its response is applied by the client at a still    *)
(* later step.  One client is modelled in full; the other sessions of the  *)
(* room are modelled by what they do to the store: their inserts and their *)
(* calls of delete_old_messages(), at any time.                            *)
(***************************************************************************)
EXTENDS Integers, Sequences, FiniteSets, TLC

\* ---------------------------------------------------------------- bounds
\* Messages the client sends.
MaxSends == 1
\* Messages the other sessions send.
MaxRemote == 1
\* The clock stops here.
MaxTime == 150000
\* Calls of the purge rpc that fail.
MaxPurgeFailures == 1

\* The steps in which time passes.
TickSteps == {10000}

\* Texts a user types: sequences of characters.
Inputs == {<<" ">>, <<" ", "a", " ">>}

\* Texts the other sessions send.
RemoteContents == {<<"b">>}

\* ------------------------------------------------------ program constants
\* page.tsx:34   diffMinutes < 2
ExpiryMinutes == 2
\* page.tsx:33   / 1000 / 60
MsPerMinute == 1000 * 60
\* page.tsx:97   setInterval(removeExpiredMessages, 10000)
ExpirationInterval == 10000
\* page.tsx:99   setInterval(cleanupDatabase, 30000)
CleanupInterval == 30000
\* page.tsx:109  Date.now() - 2 * 60 * 1000
FetchWindow == 2 * 60 * 1000
\* page.tsx:379  NOW() - INTERVAL '2 minutes'
PurgeAge == 2 * 60 * 1000
\* page.tsx:115  .limit(100)
FetchLimit == 100

TenSeconds == 10 * 1000

\* ------------------------------------------------------------------ data
\* Message ids: server-generated uuids, the client's temp-<ms> ids, null.
Uuid(n) == [kind |-> "uuid", n |-> n]
TempId(t) == [kind |-> "temp", n |-> t]
NullId == [kind |-> "null", n |-> 0]

\* type Message = {id, content, created_at, reply_to}
Message(id, content, created_at, reply_to) ==
  [id |-> id, content |-> content, created_at |-> created_at, reply_to |-> reply_to]

\* The null of useState<Message | null>.
NoMessage == Message(NullId, <<>>, 0, NullId)

\* const themes: Theme[] = ["dark", "light", "golden", "sonali"]
Themes == <<"dark", "light", "golden", "sonali">>

\* localStorage.getItem("theme") of a browser that saved none; an attribute
\* that is not set.
NoTheme == ""

\* An interval that is not set, or was cleared by clearInterval.
Cleared == 0

VARIABLES
  now,          \* the clock (ms)
  store,        \* public.messages: a set of rows
  nextId,       \* the next uuid gen_random_uuid() gives
  sent,         \* messages the client has sent
  remote,       \* messages the other sessions have sent
  failed,       \* calls of the purge rpc that have failed
  phase,        \* the component: "unmounted", "mounted", "closed"
  messages,     \* useState<Message[]>
  newMessage,   \* the input text
  replyingTo,   \* useState<Message | null>
  isLoading,    \* the send control is disabled
  fetch,        \* the fetchMessages() call in flight
  send,         \* the insert call in flight
  purge,        \* delete_old_messages rpc calls in flight
  rt,           \* realtime events not yet handled (FIFO)
  nextExpire,   \* when expirationInterval fires next
  nextCleanup,  \* when cleanupInterval fires next
  theme,        \* useState<Theme>
  dataTheme,    \* the data-theme attribute of the document
  savedTheme    \* localStorage "theme"

vars == <<now, store, nextId, sent, remote, failed, phase, messages, newMessage, replyingTo, isLoading,
          fetch, send, purge, rt, nextExpire, nextCleanup, theme, dataTheme, savedTheme>>

clientUI == <<messages, newMessage, replyingTo, isLoading>>
timers == <<nextExpire, nextCleanup>>
server == <<store, nextId>>
budget == <<sent, remote, failed>>
look == <<theme, dataTheme, savedTheme>>

\* ------------------------------------------------------------- helpers
IsSpace(ch) == ch = " "

RECURSIVE TrimStart(_)
TrimStart(s) ==
  IF s # <<>> /\ IsSpace(Head(s)) THEN TrimStart(Tail(s)) ELSE s

RECURSIVE TrimEnd(_)
TrimEnd(s) ==
  IF s # <<>> /\ IsSpace(s[Len(s)]) THEN TrimEnd(SubSeq(s, 1, Len(s) - 1)) ELSE s

\* String.prototype.trim
Trim(s) == TrimEnd(TrimStart(s))

\* The client's Date.now() / new Date().
ClientNow == now

\* A filter that keeps the message of exactly two minutes.
NotExpired_Inclusive(msg, t) == (t - msg.created_at) <= ExpiryMinutes * MsPerMinute

\* removeExpiredMessages' filter: diffMinutes < 2, diffMinutes a real number.
NotExpired(msg, t) == (t - msg.created_at) < ExpiryMinutes * MsPerMinute

\* current.filter(notExpired)
RemoveExpired(current, t) == SelectSeq(current, LAMBDA msg : NotExpired(msg, t))

\* current.some((msg) => msg.id === id)
HasId(current, id) == \E i \in 1..Len(current) : current[i].id = id

\* The INSERT handler's update of the list.
OnInsert(current, row) == IF HasId(current, row.id) THEN current ELSE <<row>> \o current

\* A DELETE handler that takes the deleted row for the head of the list.
OnDelete_DropsHead(current, id) == IF HasId(current, id) THEN Tail(current) ELSE current

\* The DELETE handler's update of the list.
OnDelete(current, id) == SelectSeq(current, LAMBDA msg : msg.id # id)

\* The optimistic prepend.
Prepend(current, msg) == <<msg>> \o current

\* The confirmation: current.map(msg => msg.id === temp ? data : msg)
ReplaceId(current, temp, data) ==
  [i \in 1..Len(current) |-> IF current[i].id = temp THEN data ELSE current[i]]

\* A rollback that takes the head of the list for the optimistic entry.
RemoveId_DropsHead(current, temp) == IF current = <<>> THEN current ELSE Tail(current)

\* The rollback: current.filter(msg => msg.id !== temp)
RemoveId(current, temp) == SelectSeq(current, LAMBDA msg : msg.id # temp)

\* A lookup that takes the newest entry for the target.
GetRepliedMessage_Head(current, replyToId) ==
  IF replyToId = NullId \/ current = <<>> THEN NoMessage ELSE Head(current)

\* getRepliedMessage: null for no id, else messages.find(msg => msg.id === id)
\* (the first such entry; undefined, here the null too, when there is none).
GetRepliedMessage(current, replyToId) ==
  IF replyToId = NullId THEN NoMessage
  ELSE IF HasId(current, replyToId)
    THEN current[CHOOSE i \in 1..Len(current) :
                   current[i].id = replyToId /\ \A j \in 1..(i - 1) : current[j].id # replyToId]
    ELSE NoMessage

\* What messages.map renders of one entry: its key and content, and the
\* "Replying to:" box (the content of the replied message) when there is one.
RenderMessage(current, message) ==
  [key |-> message.id,
   content |-> message.content,
   preview |-> IF GetRepliedMessage(current, message.reply_to) # NoMessage
               THEN <<GetRepliedMessage(current, message.reply_to).content>>
               ELSE <<>>]

\* The rendered list.
Render(current) == [i \in 1..Len(current) |-> RenderMessage(current, current[i])]

\* --------------------------------------------------------------- store
\* The rows the fetch query selects: .gte("created_at", twoMinutesAgo)
FetchRows(rows, since) == {r \in rows : r.created_at >= since}

\* .order("created_at", {ascending: false}): every order of the rows that is
\* descending in created_at (rows of equal created_at come in either order).
RECURSIVE Descending(_)
Descending(rows) ==
  LET times == {r.created_at : r \in rows} IN
  IF rows = {} THEN {<<>>}
  ELSE IF Cardinality(times) = 1
    THEN UNION {{<<r>> \o s : s \in Descending(rows \ {r})} : r \in rows}
    ELSE LET mid == CHOOSE t \in times :
                      Cardinality({u \in times : u > t}) = Cardinality(times) \div 2
         IN {newer \o older : newer \in Descending({r \in rows : r.created_at > mid}),
                              older \in Descending({r \in rows : r.created_at <= mid})}

\* A query without its limit.
Limit_None(s, n) == s

\* .limit(100)
Limit(s, n) == IF Len(s) <= n THEN s ELSE SubSeq(s, 1, n)

\* The results the query may give.
FetchResults(rows, since) == {Limit(s, FetchLimit) : s \in Descending(FetchRows(rows, since))}

\* A purge that deletes the rows of exactly two minutes too.
PurgeDeletes_Inclusive(rows, t) == {r \in rows : r.created_at <= t - PurgeAge}

\* DELETE FROM public.messages WHERE created_at < NOW() - INTERVAL '2 minutes'
PurgeDeletes(rows, t) == {r \in rows : r.created_at < t - PurgeAge}

\* A reply_to without its ON DELETE SET NULL.
SetNull_Keeps(r, gone) == r

\* reply_to UUID REFERENCES public.messages(id) ON DELETE SET NULL
SetNull(r, gone) ==
  IF \E d \in gone : d.id = r.reply_to THEN [r EXCEPT !.reply_to = NullId] ELSE r

\* The table after delete_old_messages() ran at t.
PurgeAt(rows, t) ==
  {SetNull(r, PurgeDeletes(rows, t)) : r \in rows \ PurgeDeletes(rows, t)}

\* The foreign key of reply_to (and its uuid type: a temp-... id is no uuid).
ForeignKeyOk(rows, reply_to) ==
  reply_to = NullId \/ (reply_to.kind = "uuid" /\ \E r \in rows : r.id = reply_to)

\* The row an insert of (content, reply_to) makes at t.
NewRow(n, content, reply_to, t) == Message(Uuid(n), content, t, reply_to)

\* The table after the insert.
InsertRow(rows, row) == rows \cup {row}

\* Rows in the order of their ids (the order they were inserted in).
RECURSIVE InOrder(_)
InOrder(rows) ==
  IF rows = {} THEN <<>>
  ELSE LET r == CHOOSE x \in rows : \A y \in rows : x.id.n <= y.id.n
       IN <<r>> \o InOrder(rows \ {r})

\* The payloads of postgres_changes: payload.new, payload.old (the key).
InsertEvent(row) == [event |-> "INSERT", row |-> row]
DeleteEvent(row) == [event |-> "DELETE", row |-> Message(row.id, <<>>, 0, NullId)]

DeleteEvents(rows) == [i \in 1..Cardinality(rows) |-> DeleteEvent(InOrder(rows)[i])]

\* The subscribed client gets the events, in order.
Broadcast(evs) == IF phase = "mounted" THEN rt \o evs ELSE rt

Idle == [stage |-> "idle", since |-> 0, data |-> <<>>]
NoSend == [stage |-> "idle", temp |-> NullId, content |-> <<>>,
           replyTo |-> NoMessage, data |-> NoMessage]

\* ---------------------------------------------------------------- Init
\* The page is opened on a room that may hold rows of earlier sessions:
\* one of age exactly two minutes, one ten seconds younger that replies to it.
StartTime == FetchWindow
OldRow1 == Message(Uuid(1), <<"o">>, 0, NullId)
OldRow2 == Message(Uuid(2), <<"p">>, TenSeconds, Uuid(1))
InitialStores == {{}, {OldRow1}, {OldRow1, OldRow2}}

Init ==
  /\ now = StartTime
  /\ store \in InitialStores
  /\ nextId = Cardinality(store) + 1
  /\ sent = 0
  /\ remote = 0
  /\ failed = 0
  /\ phase = "unmounted"
  /\ messages = <<>>
  /\ newMessage = <<>>
  /\ replyingTo = NoMessage
  /\ isLoading = FALSE
  /\ fetch = Idle
  /\ send = NoSend
  /\ purge = 0
  /\ rt = <<>>
  /\ nextExpire = Cleared
  /\ nextCleanup = Cleared
  /\ theme = "dark"
  /\ dataTheme = NoTheme
  /\ savedTheme = NoTheme

\* ------------------------------------------------------------- actions
\* useEffect: fetchMessages(), subscribe, the two intervals.
Mount ==
  /\ phase = "unmounted"
  /\ phase' = "mounted"
  /\ fetch' = [stage |-> "req", since |-> ClientNow - FetchWindow, data |-> <<>>]
  /\ nextExpire' = now + ExpirationInterval
  /\ nextCleanup' = now + CleanupInterval
  /\ theme' = (IF savedTheme # NoTheme THEN savedTheme ELSE theme)
  /\ dataTheme' = (IF savedTheme # NoTheme THEN savedTheme ELSE "dark")
  /\ UNCHANGED <<savedTheme, budget, now, server, clientUI, send, purge, rt>>

\* The store runs the fetch query.
FetchServe ==
  /\ phase = "mounted"
  /\ fetch.stage = "req"
  /\ \E data \in FetchResults(store, fetch.since) :
       fetch' = [fetch EXCEPT !.stage = "ok", !.data = data]
  /\ UNCHANGED <<look, budget, now, server, phase, clientUI, send, purge, rt, timers>>

\* if (data && !error) setMessages(data)
FetchDone ==
  /\ phase = "mounted"
  /\ fetch.stage = "ok"
  /\ messages' = fetch.data
  /\ fetch' = Idle
  /\ UNCHANGED <<look, budget, now, server, phase, newMessage, replyingTo, isLoading, send, purge, rt,
                 timers>>

\* else if (error) console.error(...)
FetchError ==
  /\ phase = "mounted"
  /\ fetch.stage = "req"
  /\ fetch' = Idle
  /\ UNCHANGED <<look, budget, now, server, phase, clientUI, send, purge, rt, timers>>

\* onChange of the textarea (disabled while isLoading): the user types into
\* the blank box.
SetNewMessage(text) ==
  /\ phase = "mounted"
  /\ ~isLoading
  /\ sent < MaxSends
  /\ Trim(newMessage) = <<>>
  /\ newMessage # text
  /\ newMessage' = text
  /\ UNCHANGED <<look, budget, now, server, phase, messages, replyingTo, isLoading, fetch, send, purge,
                 rt, timers>>

\* onClick of a message's reply button: setReplyingTo(message)
SetReplyingTo(i) ==
  /\ phase = "mounted"
  /\ sent < MaxSends
  /\ i \in 1..Len(messages)
  /\ replyingTo # messages[i]
  /\ replyingTo' = messages[i]
  /\ UNCHANGED <<look, budget, now, server, phase, messages, newMessage, isLoading, fetch, send, purge,
                 rt, timers>>

\* onClick of the X of the reply bar: setReplyingTo(null)
CancelReply ==
  /\ phase = "mounted"
  /\ replyingTo # NoMessage
  /\ replyingTo' = NoMessage
  /\ UNCHANGED <<look, budget, now, server, phase, messages, newMessage, isLoading, fetch, send, purge,
                 rt, timers>>

\* An optimistic message of the text as typed.
OptimisticMessage_Untrimmed ==
  Message(TempId(ClientNow), newMessage, ClientNow, replyingTo.id)

\* The optimistic message handleSendMessage builds.
OptimisticMessage ==
  Message(TempId(ClientNow), Trim(newMessage), ClientNow, replyingTo.id)

\* if (!newMessage.trim() || isLoading) return
SendRejected == Trim(newMessage) = <<>> \/ isLoading

\* handleSendMessage returning at its guard: nothing is done.
SendIgnored ==
  /\ phase = "mounted"
  /\ SendRejected
  /\ UNCHANGED vars

\* A handleSendMessage that leaves the send control enabled.
HandleSendMessage_NotLoading ==
  /\ phase = "mounted"
  /\ ~SendRejected
  /\ sent < MaxSends
  /\ sent' = sent + 1
  /\ isLoading' = isLoading
  /\ newMessage' = <<>>
  /\ replyingTo' = NoMessage
  /\ messages' = Prepend(messages, OptimisticMessage)
  /\ send' = [stage |-> "req", temp |-> OptimisticMessage.id, content |-> Trim(newMessage),
              replyTo |-> replyingTo, data |-> NoMessage]
  /\ UNCHANGED <<look, remote, failed, now, server, phase, fetch, purge, rt, timers>>

\* handleSendMessage up to its await.
HandleSendMessage ==
  /\ phase = "mounted"
  /\ ~SendRejected
  /\ sent < MaxSends
  /\ sent' = sent + 1
  /\ isLoading' = TRUE
  /\ newMessage' = <<>>
  /\ replyingTo' = NoMessage
  /\ messages' = Prepend(messages, OptimisticMessage)
  /\ send' = [stage |-> "req", temp |-> OptimisticMessage.id, content |-> Trim(newMessage),
              replyTo |-> replyingTo, data |-> NoMessage]
  /\ UNCHANGED <<look, remote, failed, now, server, phase, fetch, purge, rt, timers>>

\* The store runs the insert: a new row, its INSERT event to the subscriber.
InsertServe ==
  /\ send.stage = "req"
  /\ ForeignKeyOk(store, send.replyTo.id)
  /\ LET row == NewRow(nextId, send.content, send.replyTo.id, now)
     IN /\ store' = InsertRow(store, row)
        /\ nextId' = nextId + 1
        /\ rt' = Broadcast(<<InsertEvent(row)>>)
        /\ send' = IF phase = "mounted" THEN [send EXCEPT !.stage = "ok", !.data = row]
                   ELSE NoSend
  /\ UNCHANGED <<look, budget, now, phase, clientUI, fetch, purge, timers>>

\* else if (data): the optimistic entry becomes the row; setIsLoading(false)
InsertDone ==
  /\ phase = "mounted"
  /\ send.stage = "ok"
  /\ messages' = ReplaceId(messages, send.temp, send.data)
  /\ isLoading' = FALSE
  /\ send' = NoSend
  /\ UNCHANGED <<look, budget, now, server, phase, newMessage, replyingTo, fetch, purge, rt, timers>>

\* if (error): the insert failed (the network, or the foreign key of reply_to).
InsertError ==
  /\ phase = "mounted"
  /\ send.stage = "req"
  /\ messages' = RemoveId(messages, send.temp)
  /\ newMessage' = send.content
  /\ replyingTo' = send.replyTo
  /\ isLoading' = FALSE
  /\ send' = NoSend
  /\ UNCHANGED <<look, budget, now, server, phase, fetch, purge, rt, timers>>

\* The INSERT and the DELETE handler of the channel.
OnEvent(current, ev) ==
  IF ev.event = "INSERT" THEN OnInsert(current, ev.row) ELSE OnDelete(current, ev.row.id)

\* A realtime event reaches the client.
RealtimeDeliver ==
  /\ phase = "mounted"
  /\ rt # <<>>
  /\ messages' = OnEvent(messages, Head(rt))
  /\ rt' = Tail(rt)
  /\ UNCHANGED <<look, budget, now, server, phase, newMessage, replyingTo, isLoading, fetch, send, purge,
                 timers>>

\* expirationInterval fires: removeExpiredMessages()
ExpireTick ==
  /\ nextExpire # Cleared
  /\ nextExpire = now
  /\ messages' = RemoveExpired(messages, ClientNow)
  /\ nextExpire' = now + ExpirationInterval
  /\ UNCHANGED <<look, budget, now, server, phase, newMessage, replyingTo, isLoading, fetch, send, purge,
                 rt, nextCleanup>>

\* A cleanup tick that calls the rpc only until a call has failed.
CleanupTick_StopsOnFailure ==
  /\ nextCleanup # Cleared
  /\ nextCleanup = now
  /\ purge' = IF failed > 0 THEN purge ELSE purge + 1
  /\ nextCleanup' = now + CleanupInterval
  /\ UNCHANGED <<look, budget, now, server, phase, clientUI, fetch, send, rt, nextExpire>>

\* cleanupInterval fires: cleanupDatabase() calls the rpc.
CleanupTick ==
  /\ nextCleanup # Cleared
  /\ nextCleanup = now
  /\ purge' = purge + 1
  /\ nextCleanup' = now + CleanupInterval
  /\ UNCHANGED <<look, budget, now, server, phase, clientUI, fetch, send, rt, nextExpire>>

\* The store runs delete_old_messages(): the rows go, their DELETE events
\* reach the subscriber.
RunPurge ==
  /\ store' = PurgeAt(store, now)
  /\ rt' = Broadcast(DeleteEvents(PurgeDeletes(store, now)))
  /\ UNCHANGED <<look, budget, now, nextId, phase, clientUI, fetch, send, timers>>

\* The client's rpc is served.
PurgeExec ==
  /\ purge > 0
  /\ purge' = purge - 1
  /\ RunPurge

\* A failure of the rpc that ends the cleanup interval.
PurgeFail_StopsTimer ==
  /\ purge > 0
  /\ failed < MaxPurgeFailures
  /\ failed' = failed + 1
  /\ purge' = purge - 1
  /\ nextCleanup' = Cleared
  /\ UNCHANGED <<look, sent, remote, now, server, phase, clientUI, fetch, send, rt, nextExpire>>

\* The client's rpc fails: console.error, nothing else.
PurgeFail ==
  /\ purge > 0
  /\ failed < MaxPurgeFailures
  /\ failed' = failed + 1
  /\ purge' = purge - 1
  /\ UNCHANGED <<look, sent, remote, now, server, phase, clientUI, fetch, send, rt, timers>>

\* A cleanup that leaves the cleanup interval running.
Unmount_KeepsCleanupInterval ==
  /\ phase = "mounted"
  /\ phase' = "closed"
  /\ messages' = <<>>
  /\ newMessage' = <<>>
  /\ replyingTo' = NoMessage
  /\ isLoading' = FALSE
  /\ fetch' = Idle
  /\ send' = IF send.stage = "req" THEN [send EXCEPT !.temp = NullId] ELSE NoSend
  /\ rt' = <<>>
  /\ nextExpire' = Cleared
  /\ nextCleanup' = nextCleanup
  /\ theme' = "dark"
  /\ UNCHANGED <<dataTheme, savedTheme, budget, now, server, purge>>

\* The useEffect cleanup: removeChannel, clearInterval twice; the component
\* and its state are gone.  Calls in flight still reach the store.
Unmount ==
  /\ phase = "mounted"
  /\ phase' = "closed"
  /\ messages' = <<>>
  /\ newMessage' = <<>>
  /\ replyingTo' = NoMessage
  /\ isLoading' = FALSE
  /\ fetch' = Idle
  /\ send' = IF send.stage = "req" THEN [send EXCEPT !.temp = NullId] ELSE NoSend
  /\ rt' = <<>>
  /\ nextExpire' = Cleared
  /\ nextCleanup' = Cleared
  /\ theme' = "dark"
  /\ UNCHANGED <<dataTheme, savedTheme, budget, now, server, purge>>

\* themes.indexOf(theme), from 0; -1 for a value that is none of them.
IndexOf(themes, t) ==
  IF \E i \in 1..Len(themes) : themes[i] = t
  THEN (CHOOSE i \in 1..Len(themes) : themes[i] = t /\ \A j \in 1..(i - 1) : themes[j] # t) - 1
  ELSE -1

\* themes[(currentIndex + 1) % themes.length]
NextTheme(t) == Themes[((IndexOf(Themes, t) + 1) % Len(Themes)) + 1]

\* A toggleTheme without its localStorage.setItem.
ToggleTheme_NotSaved ==
  /\ phase = "mounted"
  /\ theme' = NextTheme(theme)
  /\ dataTheme' = NextTheme(theme)
  /\ savedTheme' = savedTheme
  /\ UNCHANGED <<budget, now, server, phase, clientUI, fetch, send, purge, rt, timers>>

\* toggleTheme: setTheme, the data-theme attribute, localStorage.setItem
ToggleTheme ==
  /\ phase = "mounted"
  /\ theme' = NextTheme(theme)
  /\ dataTheme' = NextTheme(theme)
  /\ savedTheme' = NextTheme(theme)
  /\ UNCHANGED <<budget, now, server, phase, clientUI, fetch, send, purge, rt, timers>>

\* The page is loaded again: a new document, a new component; localStorage
\* stays.
Reload ==
  /\ phase = "closed"
  /\ phase' = "unmounted"
  /\ dataTheme' = NoTheme
  /\ UNCHANGED <<theme, savedTheme, budget, now, server, clientUI, fetch, send, purge, rt, timers>>

\* The insert of a closed client fails on its way.
InsertLost ==
  /\ phase = "closed"
  /\ send.stage = "req"
  /\ send' = NoSend
  /\ UNCHANGED <<look, budget, now, server, phase, clientUI, fetch, purge, rt, timers>>

\* Another session's insert is served by the store.
RemoteInsert(content, reply_to) ==
  /\ remote < MaxRemote
  /\ remote' = remote + 1
  /\ ForeignKeyOk(store, reply_to)
  /\ LET row == NewRow(nextId, content, reply_to, now)
     IN /\ store' = InsertRow(store, row)
        /\ nextId' = nextId + 1
        /\ rt' = Broadcast(<<InsertEvent(row)>>)
  /\ UNCHANGED <<look, sent, failed, now, phase, clientUI, fetch, send, purge, timers>>

\* Another session's cleanupDatabase() is served by the store.
RemotePurge ==
  /\ PurgeDeletes(store, now) # {}   \* one that deletes nothing changes nothing
  /\ purge' = purge
  /\ RunPurge

\* No interval that is set is due before t.
NoTimerBefore(t) ==
  /\ nextExpire # Cleared => nextExpire >= t
  /\ nextCleanup # Cleared => nextCleanup >= t

\* Time passes, up to the next timer that is due.
TickTo(limit, d) ==
  /\ now + d <= limit
  /\ NoTimerBefore(now + d)
  /\ now' = now + d
  /\ UNCHANGED <<look, budget, server, phase, clientUI, fetch, send, purge, rt, timers>>

Tick(d) == TickTo(MaxTime, d)

\* The reply_to values another session may send.
RemoteReplies == {NullId} \cup {r.id : r \in store}

Next ==
  \/ \E d \in TickSteps : Tick(d)
  \/ Mount
  \/ FetchServe
  \/ FetchDone
  \/ FetchError
  \/ \E text \in Inputs : SetNewMessage(text)
  \/ \E i \in 1..Len(messages) : SetReplyingTo(i)
  \/ CancelReply
  \/ SendIgnored
  \/ HandleSendMessage
  \/ InsertServe
  \/ InsertDone
  \/ InsertError
  \/ InsertLost
  \/ RealtimeDeliver
  \/ ExpireTick
  \/ CleanupTick
  \/ PurgeExec
  \/ PurgeFail
  \/ Unmount
  \/ \E content \in RemoteContents, reply_to \in RemoteReplies : RemoteInsert(content, reply_to)
  \/ RemotePurge

Spec == Init /\ [][Next]_vars

\* ------------------------------------------------- the store's callers
\* The store under its callers alone: the inserts and purges of the other
\* sessions and the purge rpc of a client that only watches.
StoreNext ==
  \/ \E d \in TickSteps : Tick(d)
  \/ Mount
  \/ RealtimeDeliver
  \/ ExpireTick
  \/ CleanupTick
  \/ PurgeExec
  \/ PurgeFail
  \/ Unmount
  \/ \E content \in RemoteContents, reply_to \in RemoteReplies : RemoteInsert(content, reply_to)
  \/ RemotePurge

StoreSpec == Init /\ [][StoreNext]_vars

\* ------------------------------------------------- one message, by the second
\* A client that mounted within the last ten seconds has typed a message at
\* t = 0 and may send it then.  Time passes second by second; the network
\* is prompt (no time passes while an answer or an event is on its way), so
\* the row is created at t = 0 too.  The purge rpc is called and stays in
\* flight: no purge runs.
SecondSteps == {1000}

ScenarioMaxTime == ExpiryMinutes * MsPerMinute + ExpirationInterval

ScenarioInit ==
  /\ now = 0
  /\ store = {}
  /\ nextId = 1
  /\ sent = 0
  /\ remote = 0
  /\ failed = 0
  /\ phase = "mounted"
  /\ messages = <<>>
  /\ newMessage \in {text \in Inputs : Trim(text) # <<>>}
  /\ replyingTo = NoMessage
  /\ isLoading = FALSE
  /\ fetch = Idle
  /\ send = NoSend
  /\ purge = 0
  /\ rt = <<>>
  /\ nextExpire \in {t \in 1..ExpirationInterval : \E d \in SecondSteps : t % d = 0}
  /\ nextCleanup = nextExpire - ExpirationInterval + CleanupInterval
  /\ theme = "dark"
  /\ dataTheme = "dark"
  /\ savedTheme = NoTheme

ScenarioTick(d) ==
  /\ send.stage = "idle"
  /\ rt = <<>>
  /\ TickTo(ScenarioMaxTime, d)

ScenarioSend == now = 0 /\ HandleSendMessage

ScenarioNext ==
  \/ \E d \in SecondSteps : ScenarioTick(d)
  \/ ScenarioSend
  \/ InsertServe
  \/ InsertDone
  \/ RealtimeDeliver
  \/ ExpireTick
  \/ CleanupTick

ScenarioSpec == ScenarioInit /\ [][ScenarioNext]_vars

\* ------------------------------------------------------------ the theme
\* The theme over page loads: the user toggles, leaves, loads the page again.
\* No other handler reads or writes the theme.
ThemeNext ==
  \/ Mount
  \/ FetchServe
  \/ FetchDone
  \/ FetchError
  \/ \E text \in Inputs : SetNewMessage(text)
  \/ RealtimeDeliver
  \/ ToggleTheme
  \/ Unmount
  \/ Reload
  \/ \E content \in RemoteContents : RemoteInsert(content, NullId)

ThemeSpec == Init /\ [][ThemeNext]_vars

\* ------------------------------------------------------- the send, live
\* The client within one instant, in a room that holds the rows of earlier
\* sessions and gets new ones of other sessions.  An insert that was issued
\* is answered by the store, or fails, and its continuation runs while the
\* component is mounted.
SendNext ==
  \/ Mount
  \/ FetchServe
  \/ FetchDone
  \/ FetchError
  \/ \E text \in Inputs : SetNewMessage(text)
  \/ \E i \in 1..Len(messages) : SetReplyingTo(i)
  \/ CancelReply
  \/ SendIgnored
  \/ HandleSendMessage
  \/ InsertServe
  \/ InsertDone
  \/ InsertError
  \/ InsertLost
  \/ RealtimeDeliver
  \/ Unmount
  \/ \E content \in RemoteContents : RemoteInsert(content, NullId)

SendSpec ==
  /\ Init /\ [][SendNext]_vars
  /\ WF_vars(InsertServe \/ InsertError)
  /\ WF_vars(InsertDone)

\* --------------------------------------------------- the fetch, at its limit
\* The page is opened on a busy room: one row a second over the last 99, 100
\* or 101 seconds and one row of exactly two minutes.  The fetch of a client
\* that mounts now or later meets more rows than its limit, or rows that
\* have left its window.
BusyRoom(k) ==
  {Message(Uuid(i), <<"o">>, StartTime - i * 1000, NullId) : i \in 1..k}
    \cup {Message(Uuid(k + 1), <<"o">>, 0, NullId)}

BusyRooms == {BusyRoom(k) : k \in (FetchLimit - 1)..(FetchLimit + 1)}

FetchInit ==
  /\ now = StartTime
  /\ store \in BusyRooms
  /\ nextId = Cardinality(store) + 1
  /\ sent = 0
  /\ remote = 0
  /\ failed = 0
  /\ phase = "unmounted"
  /\ messages = <<>>
  /\ newMessage = <<>>
  /\ replyingTo = NoMessage
  /\ isLoading = FALSE
  /\ fetch = Idle
  /\ send = NoSend
  /\ purge = 0
  /\ rt = <<>>
  /\ nextExpire = Cleared
  /\ nextCleanup = Cleared
  /\ theme = "dark"
  /\ dataTheme = NoTheme
  /\ savedTheme = NoTheme

FetchNext ==
  \/ \E d \in TickSteps : Tick(d)
  \/ Mount
  \/ FetchServe
  \/ FetchDone
  \/ FetchError
  \/ RealtimeDeliver
  \/ ExpireTick
  \/ CleanupTick
  \/ Unmount
  \/ \E content \in RemoteContents : RemoteInsert(content, NullId)

FetchSpec == FetchInit /\ [][FetchNext]_vars

\* ------------------------------------------------------ the purge, live
\* A client that stays connected, from its mount on a room that holds the two
\* old rows (its first fetch answered at once), up to the cleanup tick after
\* the last failure the bound allows.
\* No other session purges (the worst case for the store).
LiveMaxTime == StartTime + (MaxPurgeFailures + 1) * CleanupInterval

LiveInit ==
  /\ now = StartTime
  /\ store = {OldRow1, OldRow2}
  /\ nextId = 3
  /\ sent = 0
  /\ remote = 0
  /\ failed = 0
  /\ phase = "mounted"
  /\ messages \in FetchResults({OldRow1, OldRow2}, StartTime - FetchWindow)
  /\ newMessage = <<>>
  /\ replyingTo = NoMessage
  /\ isLoading = FALSE
  /\ fetch = Idle
  /\ send = NoSend
  /\ purge = 0
  /\ rt = <<>>
  /\ nextExpire = StartTime + ExpirationInterval
  /\ nextCleanup = StartTime + CleanupInterval
  /\ theme = "dark"
  /\ dataTheme = "dark"
  /\ savedTheme = NoTheme

LiveTick(d) == TickTo(LiveMaxTime, d)

LiveNext ==
  \/ \E d \in TickSteps : LiveTick(d)
  \/ RealtimeDeliver
  \/ ExpireTick
  \/ CleanupTick
  \/ PurgeExec
  \/ PurgeFail
  \/ \E content \in RemoteContents, reply_to \in RemoteReplies : RemoteInsert(content, reply_to)

\* Time passes, a timer that is due fires, and a call of the rpc that does
\* not fail is served.
LiveSpec ==
  /\ LiveInit /\ [][LiveNext]_vars
  /\ WF_vars(\E d \in TickSteps : LiveTick(d))
  /\ WF_vars(ExpireTick)
  /\ WF_vars(CleanupTick)
  /\ WF_vars(PurgeExec)

\* ------------------------------------------------------------- claims
\* How often id is in the list.
RECURSIVE Count(_, _)
Count(list, id) ==
  IF list = <<>> THEN 0
  ELSE (IF Head(list).id = id THEN 1 ELSE 0) + Count(Tail(list), id)

\* The list with every entry of id left out, the rest in order.
RECURSIVE Without(_, _)
Without(list, id) ==
  IF list = <<>> THEN <<>>
  ELSE IF Head(list).id = id THEN Without(Tail(list), id)
       ELSE <<Head(list)>> \o Without(Tail(list), id)

\* The row with this id is in the table.
Stored(rows, id) == \E r \in rows : r.id = id

\* The steps of the client, told by what they change.
SendStep == phase = "mounted" /\ ~isLoading /\ isLoading'
ConfirmStep == phase = "mounted" /\ phase' = "mounted" /\ send.stage = "ok" /\ send'.stage = "idle"
RollbackStep == phase = "mounted" /\ phase' = "mounted" /\ send.stage = "req" /\ send'.stage = "idle"
FetchedStep == phase = "mounted" /\ phase' = "mounted" /\ fetch.stage = "ok" /\ fetch'.stage = "idle"
EventStep(kind) ==
  phase = "mounted" /\ phase' = "mounted" /\ rt # <<>> /\ rt' = Tail(rt) /\ Head(rt).event = kind

\* C1: a message of the list whose age (by the client's clock) has reached two
\* minutes is gone after the next expiry tick, so no message of the list is
\* ever older than two minutes plus one tick interval.
C1_ExpiredGoneWithinTick ==
  phase = "mounted" =>
    \A i \in 1..Len(messages) :
      ClientNow - messages[i].created_at <= ExpiryMinutes * MsPerMinute + ExpirationInterval

\* C2: when the insert response confirms a send whose optimistic entry is in
\* the list, the list then holds the server's row exactly once and the
\* temporary id no more, whether the realtime echo came before or after.
C2_OneCopyAfterConfirm ==
  [][(ConfirmStep /\ HasId(messages, send.temp))
       => (Count(messages', send.data.id) = 1 /\ Count(messages', send.temp) = 0)]_vars

\* C3: a failed insert rolls the sender back: the optimistic entry is removed
\* and every other entry kept in place, the input text is the trimmed content
\* that was sent, the reply target is the one of send time, the send control
\* is enabled.
C3_RollbackOnError ==
  [][RollbackStep
       => /\ messages' = Without(messages, send.temp)
          /\ newMessage' = send.content
          /\ send.content # <<>> /\ ~IsSpace(Head(send.content))
          /\ ~IsSpace(send.content[Len(send.content)])
          /\ replyingTo' = send.replyTo
          /\ isLoading' = FALSE]_vars

\* C3's case: a send with a reply target was rolled back while another entry
\* is in the list (the text "a" is in the box only by restoring it).
C3_Witness ==
  /\ phase = "mounted" /\ sent > 0 /\ send.stage = "idle" /\ ~isLoading
  /\ newMessage = <<"a">>
  /\ replyingTo # NoMessage
  /\ messages # <<>>

\* C4: no fetch response, send confirmation or realtime insert at a connected
\* client removes from its list a message that is stored and still live.
C4_LiveRowStays ==
  [][(FetchedStep \/ ConfirmStep \/ EventStep("INSERT"))
       => \A i \in 1..Len(messages) :
            (Stored(store, messages[i].id) /\ now - messages[i].created_at < PurgeAge)
              => HasId(messages', messages[i].id)]_vars

\* C5: an accepted send puts the optimistic entry (temporary id, trimmed
\* content, the local time, reply_to of the selected target or null) at the
\* head of the list, above the entries that were there, and clears the input
\* text and the reply target.
C5_OptimisticSend ==
  [][SendStep
       => /\ messages' # <<>>
          /\ Tail(messages') = messages
          /\ Head(messages').id = TempId(ClientNow)
          /\ Head(messages').created_at = ClientNow
          /\ Head(messages').reply_to = (IF replyingTo = NoMessage THEN NullId ELSE replyingTo.id)
          /\ LET content == Head(messages').content
                 typed == newMessage
             IN /\ content # <<>>
                /\ ~IsSpace(Head(content)) /\ ~IsSpace(content[Len(content)])
                /\ \E i, j \in 0..Len(typed) :
                     /\ typed = [k \in 1..i |-> " "] \o content \o [k \in 1..j |-> " "]
          /\ newMessage' = <<>>
          /\ replyingTo' = NoMessage]_vars

\* C5's case: a send in flight whose optimistic entry, a reply, heads a list
\* of two or more.
C5_Witness ==
  /\ phase = "mounted" /\ isLoading /\ send.stage = "req"
  /\ Len(messages) >= 2
  /\ Head(messages).id = send.temp
  /\ Head(messages).content = <<"a">>
  /\ Head(messages).reply_to # NullId
  /\ newMessage = <<>> /\ replyingTo = NoMessage

\* C6: a purge queues, for the connected client, the DELETE event of every row
\* it deletes; the DELETE handler leaves no entry of that id in the list and
\* every other entry where it was.
C6_DeleteRemovesOnlyThatId ==
  [][/\ (phase = "mounted" /\ phase' = "mounted")
          => \A r \in store :
               ~Stored(store', r.id)
                 => \E i \in 1..Len(rt') :
                      i > Len(rt) /\ rt'[i].event = "DELETE" /\ rt'[i].row.id = r.id
     /\ EventStep("DELETE")
          => /\ ~HasId(messages', Head(rt).row.id)
             /\ messages' = Without(messages, Head(rt).row.id)]_vars

\* C6's case: the DELETE event of a purged row is next in the queue of a
\* client whose list holds that row below another entry (the handler runs on
\* it in the next step).
C6_Witness ==
  /\ phase = "mounted" /\ rt # <<>>
  /\ Head(rt).event = "DELETE"
  /\ ~Stored(store, Head(rt).row.id)
  /\ Len(messages) >= 2
  /\ HasId(messages, Head(rt).row.id)
  /\ Head(messages).id # Head(rt).row.id

\* C7: in the store every reply_to is null or the id of a row of the store;
\* a step that deletes rows deletes only rows older than two minutes, and a
\* row that stays keeps its id, content and created_at, and its reply_to
\* unless that names a deleted row, which makes it null.
C7_ReplyToNullOrExisting ==
  /\ [](\A r \in store : r.reply_to = NullId \/ Stored(store, r.reply_to))
  /\ [][\A r \in store :
          IF Stored(store', r.id)
          THEN [r EXCEPT !.reply_to = IF Stored(store', r.reply_to) THEN r.reply_to ELSE NullId]
                 \in store'
          ELSE r.created_at < now - PurgeAge]_vars

\* C7's case: the reply (content "p") to the purged old row is still stored,
\* its reply_to null.
C7_Witness ==
  /\ ~Stored(store, OldRow1.id)
  /\ [OldRow2 EXCEPT !.reply_to = NullId] \in store

\* C8: with a client connected, every stored row whose two minutes have passed
\* is deleted in the end, also when calls of the purge rpc fail.
C8_ExpiredEventuallyPurged ==
  \A n \in 1..(2 + MaxRemote) :
    (\E r \in store : r.id = Uuid(n) /\ now - r.created_at >= PurgeAge)
      ~> ~Stored(store, Uuid(n))

\* C8's case: a call of the rpc has failed, an old row is still stored past
\* its two minutes, and the call of a later cleanup tick is in flight.
C8_Witness ==
  /\ failed > 0
  /\ OldRow2 \in store /\ now - OldRow2.created_at > PurgeAge
  /\ purge > 0
  /\ now > StartTime + CleanupInterval

\* The times a purge may run at, from now on.
PurgeTimes == {now, now + TenSeconds, now + CleanupInterval}

\* The rows an insert may add at t.
Inserts(rows, t) ==
  {NewRow(nextId, content, reply_to, t) :
     content \in RemoteContents, reply_to \in {NullId} \cup {r.id : r \in rows}}

Op(op, id, msg, t, data) == [op |-> op, id |-> id, msg |-> msg, t |-> t, data |-> data]

PendingOps ==
  (IF rt # <<>> /\ Head(rt).event = "INSERT"
     THEN {Op("insert", NullId, Head(rt).row, 0, <<>>)} ELSE {})
  \cup (IF rt # <<>> /\ Head(rt).event = "DELETE"
     THEN {Op("delete", Head(rt).row.id, NoMessage, 0, <<>>)} ELSE {})
  \cup (IF nextExpire = now THEN {Op("expire", NullId, NoMessage, ClientNow, <<>>)} ELSE {})
  \cup (IF ~SendRejected /\ sent < MaxSends
     THEN {Op("prepend", NullId, OptimisticMessage, 0, <<>>)} ELSE {})
  \cup (IF send.stage = "ok" THEN {Op("replace", send.temp, send.data, 0, <<>>)} ELSE {})
  \cup (IF send.stage = "req" THEN {Op("rollback", send.temp, NoMessage, 0, <<>>)} ELSE {})
  \cup (IF fetch.stage = "ok" THEN {Op("fetch", NullId, NoMessage, 0, fetch.data)} ELSE {})

Apply(o, list) ==
  CASE o.op = "insert" -> OnInsert(list, o.msg)
    [] o.op = "delete" -> OnDelete(list, o.id)
    [] o.op = "expire" -> RemoveExpired(list, o.t)
    [] o.op = "prepend" -> Prepend(list, o.msg)
    [] o.op = "replace" -> ReplaceId(list, o.id, o.msg)
    [] o.op = "rollback" -> RemoveId(list, o.id)
    [] o.op = "fetch" -> o.data

\* C10: any two updates of the list that are pending at the same time give
\* the same list in either order.
C10_UpdatesCommute ==
  phase = "mounted" =>
    \A o1, o2 \in PendingOps :
      Apply(o2, Apply(o1, messages)) = Apply(o1, Apply(o2, messages))


\* The store answers the fetch query in this step.
ServeStep == phase = "mounted" /\ fetch.stage = "req" /\ fetch'.stage = "ok"

\* The rows of the table that are in the window of the request.
InWindow(rows, since) == {r \in rows : since <= r.created_at}

\* C11: the fetch asks for the rows of the last two minutes as of the time
\* of the request; the answer holds rows of the table in that window only,
\* without repeats, newest first, all of them or else the 100 newest; the
\* list becomes the answer, so a fetch puts at most 100 rows and no row older
\* than its bound in the list.
C11_FetchResult ==
  [][/\ (phase = "unmounted" /\ phase' = "mounted")
          => fetch'.stage = "req" /\ fetch'.since = ClientNow - ExpiryMinutes * MsPerMinute
     /\ ServeStep
          => LET data == fetch'.data
                 window == InWindow(store, fetch.since)
             IN /\ fetch'.since = fetch.since
                /\ Len(data) = (IF Cardinality(window) <= FetchLimit
                                THEN Cardinality(window) ELSE FetchLimit)
                /\ \A i \in 1..Len(data) : data[i] \in window
                /\ \A i, j \in 1..Len(data) :
                     i < j => data[i] # data[j] /\ data[i].created_at >= data[j].created_at
                /\ \A r \in window :
                     (\A i \in 1..Len(data) : data[i] # r)
                       => \A i \in 1..Len(data) : data[i].created_at >= r.created_at
     /\ FetchedStep
          => /\ messages' = fetch.data
             /\ Len(messages') <= FetchLimit
             /\ \A i \in 1..Len(messages') : messages'[i].created_at >= fetch.since]_vars

\* C11's case: the list of a client is the answer of its fetch: 100 rows,
\* while the table holds a row of the window that is older than all of them.
C11_Witness ==
  /\ phase = "mounted" /\ fetch.stage = "idle"
  /\ Len(messages) = FetchLimit
  /\ \E r \in store :
       /\ r.created_at > now - ExpiryMinutes * MsPerMinute
       /\ ~HasId(messages, r.id)
       /\ \A i \in 1..Len(messages) : messages[i].created_at > r.created_at

\* C12: the send control is disabled exactly while an insert of the client is
\* in flight; while it is, a send attempt is rejected, no further insert is
\* issued and the one in flight stays as it is; every accepted send settles
\* in the end, which enables the send control again.
C12_OneSendInFlight ==
  /\ [](phase = "mounted" => (isLoading <=> send.stage # "idle"))
  /\ [](phase = "mounted" /\ isLoading => SendRejected /\ ~ENABLED HandleSendMessage)
  /\ [][(phase = "mounted" /\ isLoading /\ phase' = "mounted")
          => /\ sent' = sent
             /\ send'.stage # "idle" => /\ send'.temp = send.temp
                                        /\ send'.content = send.content
                                        /\ isLoading']_vars
  /\ ((phase = "mounted" /\ isLoading) ~> ~isLoading)

\* C12's case: the store has answered the insert, the answer is not applied
\* yet and the echo is on its way: the send control is disabled, an attempt
\* returns at the guard.
C12_Witness ==
  /\ phase = "mounted" /\ isLoading /\ send.stage = "ok"
  /\ rt # <<>>
  /\ Len(messages) >= 2
  /\ ENABLED SendIgnored

\* The fetch of the mounted client fails, a call of the purge rpc fails.
FetchFailStep ==
  phase = "mounted" /\ phase' = "mounted" /\ fetch.stage = "req" /\ fetch'.stage = "idle"
PurgeFailStep == failed' = failed + 1

\* C13: a failed fetch and a failed purge rpc change nothing of the client:
\* its list, input text, reply target and send control, its pending send,
\* its queue of realtime events and its two timers stay as they are; a
\* mounted client, also after failures, has both timers set and not overdue,
\* handles a pending realtime event, runs a tick that is due and accepts a
\* send of a text that is not blank.
C13_FailuresIgnored ==
  /\ [][(FetchFailStep \/ PurgeFailStep)
          => /\ messages' = messages /\ newMessage' = newMessage
             /\ replyingTo' = replyingTo /\ isLoading' = isLoading
             /\ send' = send /\ rt' = rt /\ phase' = phase
             /\ nextExpire' = nextExpire /\ nextCleanup' = nextCleanup]_vars
  /\ [](phase = "mounted"
          => /\ nextExpire # Cleared /\ nextExpire >= now
             /\ nextCleanup # Cleared /\ nextCleanup >= now
             /\ rt # <<>> => ENABLED RealtimeDeliver
             /\ nextExpire = now => ENABLED ExpireTick
             /\ nextCleanup = now => ENABLED CleanupTick
             /\ (Trim(newMessage) # <<>> /\ ~isLoading /\ sent < MaxSends)
                  => ENABLED HandleSendMessage)

\* C13's case: a call of the purge rpc has failed; the client is mounted,
\* its list is not empty, a realtime event is pending and the expiry tick is
\* due.
C13_Witness ==
  /\ failed > 0 /\ phase = "mounted"
  /\ messages # <<>> /\ rt # <<>>
  /\ nextExpire = now

\* C14: after the teardown the channel is unsubscribed and both intervals
\* are cleared: no event is queued for the client any more, no tick of
\* either interval runs (no new call of the purge rpc is made, no interval is
\* set again), and its list and the rest of its state stay as the teardown
\* left them.
C14_TeardownStops ==
  /\ [](phase = "closed"
          => /\ rt = <<>> /\ nextExpire = Cleared /\ nextCleanup = Cleared
             /\ ~ENABLED ExpireTick /\ ~ENABLED CleanupTick /\ ~ENABLED RealtimeDeliver)
  /\ [][phase = "closed"
          => /\ phase' = "closed"
             /\ purge' <= purge
             /\ messages' = messages /\ newMessage' = newMessage
             /\ replyingTo' = replyingTo /\ isLoading' = isLoading]_vars

\* C14's case: the client was torn down with a purge rpc of its own still in
\* flight, in a room that holds an earlier row of another session.
C14_Witness ==
  /\ phase = "closed"
  /\ purge > 0
  /\ remote > 0
  /\ \E r \in store : r.content \in RemoteContents /\ r.created_at < now

\* The user toggles the theme; the component mounts.
ToggleStep == phase = "mounted" /\ phase' = "mounted" /\ theme' # theme
MountStep == phase = "unmounted" /\ phase' = "mounted"

\* C15: a toggle steps the theme dark -> light -> golden -> sonali -> dark
\* and writes the new theme to the document and to localStorage; only a
\* toggle changes what is saved; a mount restores the saved theme, dark when
\* none is saved; so the theme of a mounted client is the last one selected,
\* and four toggles give the theme they started from.
C15_ThemeCycle ==
  /\ [][ToggleStep
          => /\ <<theme, theme'>> \in {<<"dark", "light">>, <<"light", "golden">>,
                                      <<"golden", "sonali">>, <<"sonali", "dark">>}
             /\ savedTheme' = theme' /\ dataTheme' = theme']_vars
  /\ [][savedTheme' # savedTheme => ToggleStep]_vars
  /\ [][MountStep
          => /\ theme' = (IF savedTheme = NoTheme THEN "dark" ELSE savedTheme)
             /\ dataTheme' = theme']_vars
  /\ [](phase = "mounted"
          => /\ theme = (IF savedTheme = NoTheme THEN "dark" ELSE savedTheme)
             /\ dataTheme = theme
             /\ NextTheme(NextTheme(NextTheme(NextTheme(theme)))) = theme
             /\ NextTheme(theme) # theme /\ NextTheme(NextTheme(theme)) # theme
             /\ NextTheme(NextTheme(NextTheme(theme))) # theme)

\* C15's case: the page was loaded again after three toggles: sonali is
\* saved, the new component (its state dark, the attribute not set) is about
\* to mount.
C15_Witness ==
  /\ phase = "unmounted"
  /\ savedTheme = "sonali"
  /\ theme = "dark" /\ dataTheme = NoTheme

\* C16: every entry of the list is rendered, in place, with its own content;
\* it has a preview exactly when its reply_to is not null and is the id of
\* an entry of the list, and the preview is that entry's content.
C16_ReplyPreview ==
  phase = "mounted" =>
    /\ Len(Render(messages)) = Len(messages)
    /\ \A i \in 1..Len(messages) :
         LET shown == Render(messages)[i]
             target == messages[i].reply_to
         IN /\ shown.key = messages[i].id
            /\ shown.content = messages[i].content
            /\ (shown.preview # <<>>)
                 <=> (target # NullId /\ \E j \in 1..Len(messages) : messages[j].id = target)
            /\ \A j \in 1..Len(messages) :
                 messages[j].id = target => shown.preview = <<messages[j].content>>

\* C16's case: the list holds a reply whose target is in the list, not at its
\* head, and a reply whose target is not in the list.
C16_Witness ==
  /\ phase = "mounted"
  /\ \E i, j \in 1..Len(messages) :
       /\ messages[i].reply_to # NullId
       /\ HasId(messages, messages[i].reply_to)
       /\ Head(messages).id # messages[i].reply_to
       /\ messages[j].reply_to # NullId
       /\ ~HasId(messages, messages[j].reply_to)

\* The entries of the list that are younger than two minutes at t, in order.
RECURSIVE Restrict(_, _)
Restrict(list, t) ==
  IF list = <<>> THEN <<>>
  ELSE IF t - Head(list).created_at < 2 * 60 * 1000
    THEN <<Head(list)>> \o Restrict(Tail(list), t)
    ELSE Restrict(Tail(list), t)

\* The expiry tick runs in this step.
ExpireStep == nextExpire = now /\ nextExpire' = now + ExpirationInterval

\* C17: an expiry tick leaves the list as it was, restricted to the entries
\* younger than two minutes, in order.  The message sent (and stored) at
\* t = 0 is in the list up to t = 119 s, and it is not in the list once a
\* tick has run at t = 120 s or later, so at t = 121 s after a tick.
C17_TickKeepsLive ==
  /\ [][ExpireStep => messages' = Restrict(messages, now)]_vars
  /\ [](\A r \in store :
          (r.created_at = 0 /\ send.stage = "idle" /\ rt = <<>>)
            => /\ now <= 119 * 1000 => HasId(messages, r.id)
               /\ (nextExpire - ExpirationInterval >= r.created_at + 120 * 1000)
                    => ~HasId(messages, r.id))

\* C17's case: t = 121 s, the tick of that second has run; the message of
\* t = 0 is still stored and no longer in the list.
C17_Witness ==
  /\ now = 121 * 1000
  /\ nextExpire = now + ExpirationInterval
  /\ \E r \in store : r.created_at = 0 /\ ~HasId(messages, r.id)
  /\ messages = <<>>

\* C18: when the insert response confirms a send after the realtime echo was
\* handled and after the initial fetch response was applied (no event and no
\* fetch pending), the sent row, stored and younger than two minutes, is in
\* the sender's list.
C18_SentSurvivesFetch ==
  [][(/\ ConfirmStep
      /\ rt = <<>>
      /\ fetch.stage = "idle"
      /\ Stored(store, send.data.id)
      /\ NotExpired(send.data, ClientNow))
       => HasId(messages', send.data.id)]_vars

\* C19: at every instant, with equal clocks, a stored row that the fetch
\* query returns is one the local expiry filter keeps, and a stored row that
\* the local filter drops is one the purge deletes; also at the age of
\* exactly two minutes.
C19_BoundariesAgree ==
  \A r \in store :
    /\ r \in FetchRows(store, ClientNow - FetchWindow) => NotExpired(r, ClientNow)
    /\ ~NotExpired(r, ClientNow) => r \in PurgeDeletes(store, now)

====
